---- MODULE Spec2Model ----
(***************************************************************************)
(* State machine of the real-time event client                             *)
(* scrapermost.driver.websocket.Websocket (src/src/scrapermost/driver/     *)
(* websocket.py): connect() as one asyncio coroutine whose position `pc`   *)
(* is the await it is suspended on, disconnect() as a call that another    *)
(* task (or the handler) makes while connect() is suspended, and the       *)
(* transport (aiohttp) and the caller's handler as the environment.        *)
(* One action is one resumption of the coroutine: everything it runs from  *)
(* the await that completes to the next await.                             *)
(*                                                                         *)
(* The transport's answers are a choice over what aiohttp can deliver at   *)
(* each await: a decoded frame, TypeError/ValueError (undecodable text, or *)
(* a close/error message where text was expected), aiohttp.ClientError, or *)
(* another Exception.  receive_json and receive_str (data_format) take the *)
(* same path through _start_loop, so one frame type stands for both.  The  *)
(* heartbeat task is counted (hb): created by _start_loop, cancelled where *)
(* _start_loop cancels it.                                                 *)
(*                                                                         *)
(* Spec is connect()/disconnect() of that class.  SpecHB follows the       *)
(* heartbeat task of one established session against the clock, SpecN is   *)
(* the later Websocket of src/scrapermost/driver/websocket.py (connect,    *)
(* listen, disconnect), and SpecOpt is the construction of DriverOptions   *)
(* (src/src/mattermostdriver/options.py) from an options dict.             *)
(***************************************************************************)
EXTENDS Integers, Sequences, FiniteSets, TLC

\* ------------------------------------------------------------- bounds
MaxOpens == 2
MaxFrames == 3
MaxConnects == 2
MaxTime == 9
\* time() when the heartbeat task of the session under study is created
HbStart == 4
MaxDisc == 2
\* options.timeout (seconds, default 30), scaled down to clock ticks
Timeout == 2

\* ------------------------------------------------------------- frames
\* A decoded JSON frame, reduced to the keys the handshake reads with
\* message.get(): an absent key reads as None ("none" / NoneInt).
NoneInt == -1
\* no time recorded
NoTime == NoneInt

Frame(st, sq, sr, ev) == [status |-> st, seq |-> sq, seq_reply |-> sr, event |-> ev]

OkSeq1Frame == Frame("OK", 1, NoneInt, "none")
OkReply1Frame == Frame("OK", NoneInt, 1, "none")
HelloFrame == Frame("none", 0, NoneInt, "hello")
FailFrame == Frame("FAIL", NoneInt, NoneInt, "none")
PostedFrame == Frame("none", 2, NoneInt, "posted")

Frames == {OkSeq1Frame, OkReply1Frame, HelloFrame, FailFrame, PostedFrame}

\* Exception classes as connect()'s except clauses tell them apart:
\* TypeError/ValueError, aiohttp.ClientError, any other Exception subclass
\* (ConnectionResetError, OSError, asyncio.TimeoutError, KeyError, ...).
ExcKinds == {"TypeValue", "ClientError", "Other"}
TransportExc == {"ClientError", "Other"}

VARIABLES
    alive,        \* self._alive
    keepalive,    \* self._keepalive (options.keepalive), fixed at construction
    pc,           \* the await connect() is suspended on
    opens,        \* ws_connect calls made by the current connect() call
    connects,     \* connect() calls made
    session,      \* transport sessions currently open (async with blocks entered)
    sent,         \* authentication challenges sent on the current session
    recvd,        \* frames decoded on the current session, in order
    calls,        \* frames the handler was invoked with on the current session
    running,      \* handler invocations started and not finished
    authed,       \* _authenticate_websocket has returned on the current session
    hb,           \* heartbeat tasks created and not cancelled
    cause,        \* how the latest attempt of the current connect() call ended
    opened,       \* a ws_connect of the current connect() call has succeeded
    disconnected, \* disconnect() was called since connect() was called
    discInLoop,   \* disconnect() was called while _start_loop was running
    discCalls,    \* disconnect() calls since connect() was called (up to MaxDisc)
    peerClosed,   \* the transport has signalled that the current session is closed
    lastMsg,      \* self._last_msg
    hbWake,       \* when the sleep of the current session's heartbeat task ends
    now,          \* time()
    lastProbe,    \* when the last heartbeat probe was sent (NoTime: none yet)
    options,      \* the dict given to DriverOptions
    driverOptions \* what DriverOptions(options) gave

vars == <<alive, keepalive, pc, opens, connects, session, sent, recvd, calls,
          running, authed, hb, cause, opened, disconnected, discInLoop, discCalls,
          peerClosed, lastMsg, hbWake, now, lastProbe, options, driverOptions>>

\* what no step of connect() or disconnect() writes
aux == <<now, lastProbe, options, driverOptions>>

\* what no step of the heartbeat task writes
conn == <<alive, keepalive, pc, opens, connects, session, sent, recvd, calls,
          running, authed, hb, cause, opened, disconnected, discInLoop, discCalls>>

Max(a, b) == IF a >= b THEN a ELSE b

Last(s) == s[Len(s)]

\* ------------------------------------------------------------- handshake

\* a success test that forgets the unsolicited hello event
AuthOKNoHello(m) == m.status = "OK" /\ m.seq = 1

\* a success test that looks at status or event only
AuthOKLoose(m) == m.status = "OK" \/ m.event = "hello"

\* the success test of _authenticate_websocket
AuthOK(m) ==
    \/ (m.status = "OK" /\ m.seq = 1)
    \/ (m.event = "hello" /\ m.seq = 0)

\* a handshake that keeps its frames to itself
AuthNoForward(cs, m) == cs

\* await event_handler(message) in the handshake: the frame is handed over
AuthForward(cs, m) == Append(cs, m)

\* a dispatcher that serves the newest frame first
LoopForwardFront(cs, m) == <<m>> \o cs

\* await event_handler(message) in _start_loop
LoopForward(cs, m) == Append(cs, m)

\* a dispatcher that starts the handler as a task and receives on
AfterDispatchTask == "sl_recv"

\* _start_loop awaits the handler: the coroutine is suspended on it
AfterDispatch == "sl_handler"

\* an except clause that names aiohttp.ClientError only
SuperviseClientOnly(k) == IF k = "ClientError" THEN "sleep" ELSE "raised"

\* connect()'s `except Exception`: log, sleep, go round `while True`
Supervise(k) == IF k \in ExcKinds THEN "sleep" ELSE "raised"

\* a monitor that goes on at once when the timeout has passed
HbSleepRest(since) == IF since < Timeout THEN Timeout - since ELSE 0

\* a monitor that always sleeps the whole timeout
HbSleepWhole(since) == Timeout

\* _do_heartbeats: the sleep it asks for when `since` has passed since the
\* last message
HbSleepFor(since) == IF since <= Timeout THEN Timeout - since ELSE Timeout

\* a monitor that probes after every sleep
HbDueAlways(since) == TRUE

\* _do_heartbeats after the sleep: `if time() - self._last_msg >= self.timeout`
HbDue(since) == since >= Timeout

\* a dispatcher that leaves last_msg alone
LastMsgKept(last, t) == last

\* _start_loop after a receive: self.last_msg = time()
LastMsgOnFrame(last, t) == t

\* a monitor that takes a failed pong() for a sent one
PongFailedCounted(last, t) == t

\* _do_heartbeats, `except ConnectionResetError`: logged, last_msg as it was
PongFailed(last, t) == last

\* `if not all([self._keepalive, self._alive]): break`, else round `while True`
AfterInner(al, ka) == IF ~(ka /\ al) THEN "returned" ELSE "open"

\* ------------------------------------------------------------- options
\* DriverOptions.__init__ of src/src/mattermostdriver/options.py.  A value
\* of the dict is absent (options.get gives None), the empty string, or set;
\* keepalive is absent, "true" or "false".
OptVals == {"absent", "empty", "set"}
FlagVals == {"absent", "true", "false"}
OptionDicts == [login_id : OptVals, password : OptVals, token : OptVals, keepalive : FlagVals]

\* bool(v) of an option value: None and "" are false
Truthy(v) == v = "set"

\* all([...]) of Python
All(vs) == \A i \in 1..Len(vs) : Truthy(vs[i])

\* a test that asks for login_id and password, or else for token
MissingEither(o) == ~(All(<<o.login_id, o.password>>) \/ Truthy(o.token))

\* `if not all([login_id, password]) or not options.get("token")`
Missing(o) == ~All(<<o.login_id, o.password>>) \/ ~Truthy(o.token)

NotBuilt == [state |-> "none", keepalive |-> FALSE]

\* DriverOptions(o): RuntimeError, or the object with
\* keepalive = options.get("keepalive", False)
DriverOptionsInit(o) ==
    IF Missing(o)
    THEN [state |-> "raised", keepalive |-> FALSE]
    ELSE [state |-> "built", keepalive |-> (o.keepalive = "true")]

\* the dict a driver with this keepalive was built from
OptionsGiven(ka) ==
    [login_id |-> "set", password |-> "set", token |-> "set",
     keepalive |-> IF ka THEN "true" ELSE "false"]

\* ------------------------------------------------------------- state

Init ==
    /\ alive = FALSE
    /\ keepalive \in BOOLEAN
    /\ pc = "idle"
    /\ opens = 0
    /\ connects = 0
    /\ session = 0
    /\ sent = 0
    /\ recvd = <<>>
    /\ calls = <<>>
    /\ running = 0
    /\ authed = FALSE
    /\ hb = 0
    /\ cause = "none"
    /\ opened = FALSE
    /\ disconnected = FALSE
    /\ discInLoop = FALSE
    /\ discCalls = 0
    /\ peerClosed = FALSE
    /\ lastMsg = 0
    /\ hbWake = NoTime
    /\ now = 0
    /\ lastProbe = NoTime
    /\ options = OptionsGiven(keepalive)
    /\ driverOptions = DriverOptionsInit(options)

\* a supervisor that leaves without closing the session
LeaveNoClose(target, why) ==
    /\ target = "open" => opens < MaxOpens
    /\ pc' = target
    /\ session' = session
    /\ opens' = IF target = "open" THEN opens + 1 ELSE opens
    /\ cause' = why

\* Control leaves both `async with` blocks (the session is closed on the way
\* out) towards `target`: the sleep of the except clause, the next
\* ws_connect of `while True`, or the end of connect().
Leave(target, why) ==
    /\ target = "open" => opens < MaxOpens
    /\ pc' = target
    /\ session' = 0
    /\ opens' = IF target = "open" THEN opens + 1 ELSE opens
    /\ cause' = why

\* a dispatcher that gives up after any iteration
LoopCheckFatal(why) ==
    /\ Leave("sleep", why)
    /\ UNCHANGED <<hb, hbWake>>

\* The `while self._alive` test of _start_loop after one iteration: receive
\* again, or cancel the heartbeat, return to connect's own `while self._alive`
\* (which then ends too) and take the keepalive decision.
LoopCheck(why) ==
    IF alive
    THEN /\ pc' = "sl_recv"
         /\ UNCHANGED <<session, opens, cause, hb, hbWake>>
    ELSE /\ hb' = hb - 1
         /\ hbWake' = NoTime
         /\ Leave(AfterInner(alive, keepalive), why)

\* `except ClientError: break` round _start_loop, then the keepalive decision.
\* _start_loop was left by the exception: its heartbeat task is not cancelled.
BreakInner(why) ==
    /\ Leave(AfterInner(alive, keepalive), why)
    /\ UNCHANGED <<hb, hbWake>>

\* ------------------------------------------------------------- connect

\* connect() is called: self._alive = True, ClientSession(), ws_connect awaited
Connect ==
    /\ pc \in {"idle", "returned"}
    /\ connects < MaxConnects
    /\ connects' = connects + 1
    /\ alive' = TRUE
    /\ pc' = "open"
    /\ opens' = 1
    /\ cause' = "none"
    /\ sent' = 0
    /\ recvd' = <<>>
    /\ calls' = <<>>
    /\ authed' = FALSE
    /\ opened' = FALSE
    /\ disconnected' = FALSE
    /\ discInLoop' = FALSE
    /\ discCalls' = 0
    /\ peerClosed' = FALSE
    /\ UNCHANGED <<keepalive, session, running, hb, hbWake, lastMsg, aux>>

\* ws_connect succeeds: the challenge is built and send_json awaited
OpenOk ==
    /\ pc = "open"
    /\ pc' = "auth_send"
    /\ session' = session + 1
    /\ sent' = 0
    /\ recvd' = <<>>
    /\ calls' = <<>>
    /\ authed' = FALSE
    /\ cause' = "none"
    /\ opened' = TRUE
    /\ peerClosed' = FALSE
    /\ UNCHANGED <<alive, keepalive, opens, connects, running, hb, hbWake, disconnected,
                   discInLoop, discCalls, lastMsg, aux>>

\* ClientSession()/ws_connect raises (DNS, TLS, upgrade rejected, timeout)
OpenFail ==
    /\ pc = "open"
    /\ \E k \in TransportExc : Leave(Supervise(k), "open_failed")
    /\ UNCHANGED <<alive, keepalive, connects, sent, recvd, calls, running, authed,
                   hb, hbWake, opened, disconnected, discInLoop, discCalls,
                   peerClosed, lastMsg, aux>>

\* send_json(auth_challenge) completes: receive_json awaited
AuthSendOk ==
    /\ pc = "auth_send"
    /\ sent' = sent + 1
    /\ pc' = "auth_recv"
    /\ UNCHANGED <<alive, keepalive, opens, connects, session, recvd, calls, running,
                   authed, hb, hbWake, cause, opened, disconnected, discInLoop, discCalls,
                   peerClosed, lastMsg, aux>>

\* send_json raises (the transport is closing)
AuthSendFail ==
    /\ pc = "auth_send"
    /\ Leave(Supervise("Other"), "auth_send_error")
    /\ UNCHANGED <<alive, keepalive, connects, sent, recvd, calls, running, authed,
                   hb, hbWake, opened, disconnected, discInLoop, discCalls,
                   peerClosed, lastMsg, aux>>

\* receive_json returns a frame in the handshake: the handler is awaited
AuthRecvFrame ==
    /\ pc = "auth_recv"
    /\ ~peerClosed
    /\ Len(recvd) < MaxFrames
    /\ \E m \in Frames :
        /\ recvd' = Append(recvd, m)
        /\ calls' = AuthForward(calls, m)
    /\ running' = running + 1
    /\ pc' = "auth_handler"
    /\ UNCHANGED <<alive, keepalive, opens, connects, session, sent, authed, hb, hbWake,
                   cause, opened, disconnected, discInLoop, discCalls,
                   peerClosed, lastMsg, aux>>

\* receive_json raises TypeError/ValueError in the handshake (not JSON, or a
\* close/error message instead of text): logged, receive_json awaited again
AuthRecvDecodeError ==
    /\ pc = "auth_recv"
    /\ UNCHANGED vars

\* the peer has closed the connection during the handshake: receive_json
\* gets the close message, not text, and raises TypeError; logged,
\* receive_json awaited again
AuthRecvClosed ==
    /\ pc = "auth_recv"
    /\ peerClosed' = TRUE
    /\ UNCHANGED <<alive, keepalive, pc, opens, connects, session, sent, recvd, calls,
                   running, authed, hb, hbWake, cause, opened, disconnected, discInLoop, discCalls,
                   lastMsg, aux>>

\* receive_json raises anything else in the handshake
AuthRecvRaise ==
    /\ pc = "auth_recv"
    /\ \E k \in TransportExc : Leave(Supervise(k), "auth_recv_error")
    /\ UNCHANGED <<alive, keepalive, connects, sent, recvd, calls, running, authed,
                   hb, hbWake, opened, disconnected, discInLoop, discCalls,
                   peerClosed, lastMsg, aux>>

\* the handler returns in the handshake: the frame is tested; on success
\* _authenticate_websocket returns and connect enters `while self._alive`,
\* where _start_loop creates the heartbeat task and awaits a frame
AuthHandlerReturn ==
    /\ pc = "auth_handler"
    /\ running' = running - 1
    /\ IF AuthOK(Last(recvd))
       THEN /\ authed' = TRUE
            /\ IF alive
               THEN /\ hb' = hb + 1
                    /\ hbWake' = now + HbSleepFor(now - lastMsg)
                    /\ pc' = "sl_recv"
                    /\ UNCHANGED <<session, opens, cause>>
               ELSE /\ Leave(AfterInner(alive, keepalive), "loop_exit")
                    /\ UNCHANGED <<hb, hbWake>>
       ELSE /\ pc' = "auth_recv"
            /\ UNCHANGED <<authed, hb, hbWake, session, opens, cause>>
    /\ UNCHANGED <<alive, keepalive, connects, sent, recvd, calls, opened, disconnected, discInLoop, discCalls,
                   peerClosed, lastMsg, aux>>

\* the handler raises in the handshake: the call is in the `else` clause, so
\* no except clause of _authenticate_websocket applies
AuthHandlerRaise ==
    /\ pc = "auth_handler"
    /\ running' = running - 1
    /\ \E k \in ExcKinds : Leave(Supervise(k), "auth_handler_exc")
    /\ UNCHANGED <<alive, keepalive, connects, sent, recvd, calls, authed, hb, hbWake,
                   opened, disconnected, discInLoop, discCalls,
                   peerClosed, lastMsg, aux>>

\* ------------------------------------------------------------- dispatcher

\* receive_json/receive_str returns a frame in _start_loop
LoopRecvFrame ==
    /\ pc = "sl_recv"
    /\ ~peerClosed
    /\ Len(recvd) < MaxFrames
    /\ lastMsg' = LastMsgOnFrame(lastMsg, now)
    /\ \E m \in Frames :
        /\ recvd' = Append(recvd, m)
        /\ calls' = LoopForward(calls, m)
    /\ running' = running + 1
    /\ pc' = AfterDispatch
    /\ UNCHANGED <<alive, keepalive, opens, connects, session, sent, authed, hb, hbWake,
                   cause, opened, disconnected, discInLoop, discCalls,
                   peerClosed, aux>>

\* receive raises TypeError/ValueError in _start_loop: logged, loop test
LoopRecvDecodeError ==
    /\ pc = "sl_recv"
    /\ LoopCheck("loop_exit")
    /\ UNCHANGED <<alive, keepalive, connects, sent, recvd, calls, running, authed,
                   opened, disconnected, discInLoop, discCalls,
                   peerClosed, lastMsg, aux>>

\* the peer has closed the connection: receive gets the close message, not
\* text, and raises TypeError; logged like a decode error, loop test
LoopRecvClosed ==
    /\ pc = "sl_recv"
    /\ peerClosed' = TRUE
    /\ LoopCheck("loop_exit")
    /\ UNCHANGED <<alive, keepalive, connects, sent, recvd, calls, running, authed,
                   opened, disconnected, discInLoop, discCalls, lastMsg, aux>>

\* receive raises aiohttp.ClientError in _start_loop
LoopRecvClientError ==
    /\ pc = "sl_recv"
    /\ BreakInner("recv_client_error")
    /\ UNCHANGED <<alive, keepalive, connects, sent, recvd, calls, running, authed,
                   opened, disconnected, discInLoop, discCalls,
                   peerClosed, lastMsg, aux>>

\* receive raises any other exception in _start_loop
LoopRecvOtherError ==
    /\ pc = "sl_recv"
    /\ Leave(Supervise("Other"), "recv_other_error")
    /\ UNCHANGED <<alive, keepalive, connects, sent, recvd, calls, running, authed,
                   hb, hbWake, opened, disconnected, discInLoop, discCalls,
                   peerClosed, lastMsg, aux>>

\* the handler returns in _start_loop
LoopHandlerReturn ==
    /\ pc = "sl_handler"
    /\ running' = running - 1
    /\ LoopCheck("loop_exit")
    /\ UNCHANGED <<alive, keepalive, connects, sent, recvd, calls, authed,
                   opened, disconnected, discInLoop, discCalls,
                   peerClosed, lastMsg, aux>>

\* the handler raises TypeError/ValueError in _start_loop: the call is inside
\* the try, so it is logged like a decode error
LoopHandlerTypeValue ==
    /\ pc = "sl_handler"
    /\ running' = running - 1
    /\ LoopCheck("loop_exit")
    /\ UNCHANGED <<alive, keepalive, connects, sent, recvd, calls, authed,
                   opened, disconnected, discInLoop, discCalls,
                   peerClosed, lastMsg, aux>>

\* the handler raises aiohttp.ClientError in _start_loop
LoopHandlerClientError ==
    /\ pc = "sl_handler"
    /\ running' = running - 1
    /\ BreakInner("handler_client_error")
    /\ UNCHANGED <<alive, keepalive, connects, sent, recvd, calls, authed,
                   opened, disconnected, discInLoop, discCalls,
                   peerClosed, lastMsg, aux>>

\* the handler raises any other exception in _start_loop
LoopHandlerOtherError ==
    /\ pc = "sl_handler"
    /\ running' = running - 1
    /\ Leave(Supervise("Other"), "handler_other_error")
    /\ UNCHANGED <<alive, keepalive, connects, sent, recvd, calls, authed, hb, hbWake,
                   opened, disconnected, discInLoop, discCalls,
                   peerClosed, lastMsg, aux>>

\* sleep(self._keepalive_delay) of the except clause is over: round `while True`
SleepDone ==
    /\ pc = "sleep"
    /\ opens < MaxOpens
    /\ pc' = "open"
    /\ opens' = opens + 1
    /\ UNCHANGED <<alive, keepalive, connects, session, sent, recvd, calls, running,
                   authed, hb, hbWake, cause, opened, disconnected, discInLoop, discCalls,
                   peerClosed, lastMsg, aux>>

\* ------------------------------------------------------------- disconnect

\* a disconnect() that flips the flag
DisconnectToggle(al) == ~al

\* disconnect(): self._alive = False
DisconnectAlive(al) == FALSE

\* disconnect() runs between two resumptions of connect(), from another task
\* or from inside the handler.
Disconnect ==
    /\ pc # "raised"
    /\ alive' = DisconnectAlive(alive)
    /\ discCalls' = IF discCalls < MaxDisc THEN discCalls + 1 ELSE discCalls
    /\ disconnected' = TRUE
    /\ discInLoop' = (discInLoop \/ pc \in {"sl_recv", "sl_handler"})
    /\ UNCHANGED <<keepalive, pc, opens, connects, session, sent, recvd, calls,
                   running, authed, hb, hbWake, cause, opened, peerClosed, lastMsg, aux>>

Next ==
    \/ Connect
    \/ OpenOk
    \/ OpenFail
    \/ AuthSendOk
    \/ AuthSendFail
    \/ AuthRecvFrame
    \/ AuthRecvDecodeError
    \/ AuthRecvClosed
    \/ AuthRecvRaise
    \/ AuthHandlerReturn
    \/ AuthHandlerRaise
    \/ LoopRecvFrame
    \/ LoopRecvDecodeError
    \/ LoopRecvClosed
    \/ LoopRecvClientError
    \/ LoopRecvOtherError
    \/ LoopHandlerReturn
    \/ LoopHandlerTypeValue
    \/ LoopHandlerClientError
    \/ LoopHandlerOtherError
    \/ SleepDone
    \/ Disconnect

Spec == Init /\ [][Next]_vars

\* ------------------------------------------------------------- heartbeat
\* The heartbeat task of one established session against the clock.  The
\* session has just been authenticated and _start_loop has created the task;
\* _last_msg is 0 on the first connect() and whatever an earlier session left
\* on a later one.

InitHB ==
    /\ alive = TRUE
    /\ keepalive \in BOOLEAN
    /\ pc = "sl_recv"
    /\ opens = 1
    /\ connects \in 1..MaxConnects
    /\ session = 1
    /\ sent = 1
    /\ recvd = <<HelloFrame>>
    /\ calls = <<HelloFrame>>
    /\ running = 0
    /\ authed = TRUE
    /\ hb = 1
    /\ cause = "none"
    /\ opened = TRUE
    /\ disconnected = FALSE
    /\ discInLoop = FALSE
    /\ discCalls = 0
    /\ peerClosed = FALSE
    /\ lastMsg \in (IF connects = 1 THEN {0} ELSE 0..HbStart)
    /\ now = HbStart
    /\ hbWake = now + HbSleepFor(now - lastMsg)
    /\ lastProbe = NoTime
    /\ options = OptionsGiven(keepalive)
    /\ driverOptions = DriverOptionsInit(options)

\* time() advances; a sleep that is over wakes its task before time moves on
Tick ==
    /\ now < MaxTime
    /\ hbWake # NoTime => now < hbWake
    /\ now' = now + 1
    /\ UNCHANGED <<conn, peerClosed, lastMsg, hbWake, lastProbe, options, driverOptions>>

\* the sleep is over and a message came inside the window: sleep again
HbWakeIdle ==
    /\ hbWake = now
    /\ ~HbDue(now - lastMsg)
    /\ hbWake' = now + HbSleepFor(now - lastMsg)
    /\ UNCHANGED <<conn, peerClosed, lastMsg, aux>>

\* the sleep is over and no message came inside the window: pong() is sent,
\* self.last_msg = time(), sleep again
HbProbe ==
    /\ hbWake = now
    /\ HbDue(now - lastMsg)
    /\ session = 1
    /\ ~peerClosed
    /\ lastProbe' = now
    /\ lastMsg' = now
    /\ hbWake' = now + HbSleepFor(now - lastMsg')
    /\ UNCHANGED <<conn, peerClosed, now, options, driverOptions>>

\* pong() raises ConnectionResetError (the transport is closing): logged,
\* last_msg is left alone, sleep again
HbProbeReset ==
    /\ hbWake = now
    /\ HbDue(now - lastMsg)
    /\ peerClosed' = TRUE
    /\ lastMsg' = PongFailed(lastMsg, now)
    /\ hbWake' = now + HbSleepFor(now - lastMsg')
    /\ UNCHANGED <<conn, aux>>

NextHB ==
    \/ LoopRecvFrame
    \/ LoopRecvDecodeError
    \/ LoopRecvClosed
    \/ LoopRecvClientError
    \/ LoopRecvOtherError
    \/ LoopHandlerReturn
    \/ LoopHandlerTypeValue
    \/ LoopHandlerClientError
    \/ LoopHandlerOtherError
    \/ Disconnect
    \/ Tick
    \/ HbWakeIdle
    \/ HbProbe
    \/ HbProbeReset

SpecHB == InitHB /\ [][NextHB]_vars

\* ------------------------------------------------------------- listen
\* The later Websocket of src/scrapermost/driver/websocket.py: connect()
\* opens the session and returns, listen() authenticates and dispatches on
\* it, disconnect() closes it.  It has no heartbeat task and never reopens;
\* `pc` is the await connect() or listen() is suspended on, "n_ready" once
\* connect() has returned, "n_failed" once it has raised, "n_returned" and
\* "n_raised" once listen() has returned or raised.

\* what neither connect(), listen() nor disconnect() of the later Websocket
\* writes
quiet == <<keepalive, opens, hb, discInLoop, lastMsg, hbWake, aux>>

\* exceptions a handler can raise, as listen() tells them apart:
\* RuntimeError besides those of ExcKinds
HandlerExc == ExcKinds \cup {"Runtime"}

\* a handshake that waits for another frame after a frame that is no success
NAfterAuthFailRetry == "n_auth_recv"

\* _authenticate_websocket raises RuntimeError("Websocket authentication
\* failed") after the first frame that is no success; listen() logs it and
\* returns
NAfterAuthFail == "n_returned"

\* the `while self._alive` tests of listen() and _start_loop
ListenCheck(al) == IF al THEN "n_recv" ELSE "n_returned"

\* connect() is called: ClientSession(), ws_connect awaited
NConnect ==
    /\ \/ pc \in {"idle", "n_failed"}
       \/ pc \in {"n_ready", "n_returned", "n_raised"} /\ ~alive
    /\ connects < MaxConnects
    /\ connects' = connects + 1
    /\ pc' = "n_open"
    /\ sent' = 0
    /\ recvd' = <<>>
    /\ calls' = <<>>
    /\ authed' = FALSE
    /\ opened' = FALSE
    /\ disconnected' = FALSE
    /\ discCalls' = 0
    /\ peerClosed' = FALSE
    /\ cause' = "none"
    /\ UNCHANGED <<alive, session, running, quiet>>

\* ws_connect succeeds: self._alive = True, connect() returns
NOpenOk ==
    /\ pc = "n_open"
    /\ session' = session + 1
    /\ alive' = TRUE
    /\ opened' = TRUE
    /\ pc' = "n_ready"
    /\ UNCHANGED <<connects, sent, recvd, calls, running, authed, disconnected,
                   discCalls, peerClosed, cause, quiet>>

\* ws_connect raises: the ClientSession is closed, connect() raises
NOpenFail ==
    /\ pc = "n_open"
    /\ pc' = "n_failed"
    /\ UNCHANGED <<alive, connects, session, sent, recvd, calls, running, authed,
                   opened, disconnected, discCalls, peerClosed, cause, quiet>>

\* listen() is called: the challenge is built and send_json awaited
NListen ==
    /\ pc = "n_ready"
    /\ pc' = "n_auth_send"
    /\ UNCHANGED <<alive, connects, session, sent, recvd, calls, running, authed,
                   opened, disconnected, discCalls, peerClosed, cause, quiet>>

\* send_json completes; `while self._alive` of _authenticate_websocket
NAuthSendOk ==
    /\ pc = "n_auth_send"
    /\ session = 1
    /\ sent' = sent + 1
    /\ pc' = IF alive THEN "n_auth_recv" ELSE "n_returned"
    /\ UNCHANGED <<alive, connects, session, recvd, calls, running, authed,
                   opened, disconnected, discCalls, peerClosed, cause, quiet>>

\* send_json raises (the transport is closing): listen() raises
NAuthSendFail ==
    /\ pc = "n_auth_send"
    /\ pc' = "n_raised"
    /\ UNCHANGED <<alive, connects, session, sent, recvd, calls, running, authed,
                   opened, disconnected, discCalls, peerClosed, cause, quiet>>

\* receive_json returns a frame in the handshake: the handler is awaited
NAuthRecvFrame ==
    /\ pc = "n_auth_recv"
    /\ session = 1
    /\ ~peerClosed
    /\ Len(recvd) < MaxFrames
    /\ \E m \in Frames :
        /\ recvd' = Append(recvd, m)
        /\ calls' = AuthForward(calls, m)
    /\ running' = running + 1
    /\ pc' = "n_auth_handler"
    /\ UNCHANGED <<alive, connects, session, sent, authed, opened, disconnected,
                   discCalls, peerClosed, cause, quiet>>

\* receive_json raises TimeoutError, TypeError or ValueError in the
\* handshake: RuntimeError, which listen() logs, and listen() returns
NAuthRecvDecodeError ==
    /\ pc = "n_auth_recv"
    /\ pc' = "n_returned"
    /\ UNCHANGED <<alive, connects, session, sent, recvd, calls, running, authed,
                   opened, disconnected, discCalls, peerClosed, cause, quiet>>

\* the peer closes the connection during the handshake: receive_json raises
\* TypeError on the close message
NAuthRecvClosed ==
    /\ pc = "n_auth_recv"
    /\ session = 1
    /\ peerClosed' = TRUE
    /\ pc' = "n_returned"
    /\ UNCHANGED <<alive, connects, session, sent, recvd, calls, running, authed,
                   opened, disconnected, discCalls, cause, quiet>>

\* receive_json raises anything else in the handshake: listen() raises
NAuthRecvRaise ==
    /\ pc = "n_auth_recv"
    /\ pc' = "n_raised"
    /\ UNCHANGED <<alive, connects, session, sent, recvd, calls, running, authed,
                   opened, disconnected, discCalls, peerClosed, cause, quiet>>

\* the handler returns in the handshake: on a success frame
\* _authenticate_websocket returns and listen() enters `while self._alive`;
\* on any other frame it raises RuntimeError, which listen() logs
NAuthHandlerReturn ==
    /\ pc = "n_auth_handler"
    /\ running' = running - 1
    /\ IF AuthOK(Last(recvd))
       THEN /\ authed' = TRUE
            /\ pc' = ListenCheck(alive)
       ELSE /\ pc' = NAfterAuthFail
            /\ UNCHANGED authed
    /\ UNCHANGED <<alive, connects, session, sent, recvd, calls, opened,
                   disconnected, discCalls, peerClosed, cause, quiet>>

\* the handler raises in the handshake: RuntimeError is logged by listen(),
\* anything else leaves listen()
NAuthHandlerRaise ==
    /\ pc = "n_auth_handler"
    /\ running' = running - 1
    /\ \E k \in HandlerExc : pc' = IF k = "Runtime" THEN "n_returned" ELSE "n_raised"
    /\ UNCHANGED <<alive, connects, session, sent, recvd, calls, authed, opened,
                   disconnected, discCalls, peerClosed, cause, quiet>>

\* receive returns a frame in _start_loop: the handler is awaited
NLoopRecvFrame ==
    /\ pc = "n_recv"
    /\ session = 1
    /\ ~peerClosed
    /\ Len(recvd) < MaxFrames
    /\ \E m \in Frames :
        /\ recvd' = Append(recvd, m)
        /\ calls' = LoopForward(calls, m)
    /\ running' = running + 1
    /\ pc' = "n_handler"
    /\ UNCHANGED <<alive, connects, session, sent, authed, opened, disconnected,
                   discCalls, peerClosed, cause, quiet>>

\* receive raises TypeError/ValueError in _start_loop (undecodable text, or
\* the close message after disconnect()): logged, loop test
NLoopRecvDecodeError ==
    /\ pc = "n_recv"
    /\ pc' = ListenCheck(alive)
    /\ UNCHANGED <<alive, connects, session, sent, recvd, calls, running, authed,
                   opened, disconnected, discCalls, peerClosed, cause, quiet>>

\* the peer closes the connection: receive raises TypeError on the close
\* message; logged, loop test
NLoopRecvClosed ==
    /\ pc = "n_recv"
    /\ session = 1
    /\ peerClosed' = TRUE
    /\ pc' = ListenCheck(alive)
    /\ UNCHANGED <<alive, connects, session, sent, recvd, calls, running, authed,
                   opened, disconnected, discCalls, cause, quiet>>

\* receive raises anything else in _start_loop (TimeoutError, ClientError,
\* ConnectionResetError): it reaches an except clause of listen(), which logs
\* and sleeps keepalive_delay
NLoopRecvError ==
    /\ pc = "n_recv"
    /\ pc' = "n_sleep"
    /\ cause' = "recv_other_error"
    /\ UNCHANGED <<alive, connects, session, sent, recvd, calls, running, authed,
                   opened, disconnected, discCalls, peerClosed, quiet>>

\* the handler returns, or raises TypeError/ValueError, in _start_loop
NLoopHandlerReturn ==
    /\ pc = "n_handler"
    /\ running' = running - 1
    /\ pc' = ListenCheck(alive)
    /\ UNCHANGED <<alive, connects, session, sent, recvd, calls, authed, opened,
                   disconnected, discCalls, peerClosed, cause, quiet>>

\* the handler raises anything else in _start_loop: listen() logs and sleeps
NLoopHandlerError ==
    /\ pc = "n_handler"
    /\ running' = running - 1
    /\ pc' = "n_sleep"
    /\ UNCHANGED <<alive, connects, session, sent, recvd, calls, authed, opened,
                   disconnected, discCalls, peerClosed, cause, quiet>>

\* the sleep of listen()'s except clause is over: `while self._alive`, then
\* _start_loop again on the same websocket
NSleepDone ==
    /\ pc = "n_sleep"
    /\ pc' = ListenCheck(alive)
    /\ UNCHANGED <<alive, connects, session, sent, recvd, calls, running, authed,
                   opened, disconnected, discCalls, peerClosed, cause, quiet>>

\* disconnect(): if is_connected(), self._alive = False and the websocket
\* and the session are closed; else nothing
NDisconnect ==
    /\ IF alive
       THEN /\ alive' = DisconnectAlive(alive)
            /\ session' = 0
       ELSE UNCHANGED <<alive, session>>
    /\ disconnected' = TRUE
    /\ discCalls' = IF discCalls < MaxDisc THEN discCalls + 1 ELSE discCalls
    /\ UNCHANGED <<pc, connects, sent, recvd, calls, running, authed, opened,
                   peerClosed, cause, quiet>>

NextN ==
    \/ NConnect
    \/ NOpenOk
    \/ NOpenFail
    \/ NListen
    \/ NAuthSendOk
    \/ NAuthSendFail
    \/ NAuthRecvFrame
    \/ NAuthRecvDecodeError
    \/ NAuthRecvClosed
    \/ NAuthRecvRaise
    \/ NAuthHandlerReturn
    \/ NAuthHandlerRaise
    \/ NLoopRecvFrame
    \/ NLoopRecvDecodeError
    \/ NLoopRecvClosed
    \/ NLoopRecvError
    \/ NLoopHandlerReturn
    \/ NLoopHandlerError
    \/ NSleepDone
    \/ NDisconnect

SpecN == Init /\ [][NextN]_vars

\* ------------------------------------------------------------- construction
\* A driver is built from an options dict: DriverOptions(options), then
\* Websocket(options, token), which keeps options.keepalive.

InitOpt ==
    /\ options \in OptionDicts
    /\ driverOptions = NotBuilt
    /\ alive = FALSE
    /\ keepalive = FALSE
    /\ pc = "none"
    /\ opens = 0
    /\ connects = 0
    /\ session = 0
    /\ sent = 0
    /\ recvd = <<>>
    /\ calls = <<>>
    /\ running = 0
    /\ authed = FALSE
    /\ hb = 0
    /\ cause = "none"
    /\ opened = FALSE
    /\ disconnected = FALSE
    /\ discInLoop = FALSE
    /\ discCalls = 0
    /\ peerClosed = FALSE
    /\ lastMsg = 0
    /\ hbWake = NoTime
    /\ now = 0
    /\ lastProbe = NoTime

\* DriverOptions(options) is called
BuildOptions ==
    /\ driverOptions.state = "none"
    /\ driverOptions' = DriverOptionsInit(options)
    /\ UNCHANGED <<conn, peerClosed, lastMsg, hbWake, now, lastProbe, options>>

\* Websocket(options, token): self._keepalive = options.keepalive,
\* self._alive = False, self._last_msg = 0
NewWebsocket ==
    /\ driverOptions.state = "built"
    /\ pc = "none"
    /\ pc' = "idle"
    /\ keepalive' = driverOptions.keepalive
    /\ alive' = FALSE
    /\ lastMsg' = 0
    /\ UNCHANGED <<opens, connects, session, sent, recvd, calls, running, authed, hb,
                   cause, opened, disconnected, discInLoop, discCalls, peerClosed,
                   hbWake, aux>>

NextOpt ==
    \/ BuildOptions
    \/ NewWebsocket

SpecOpt == InitOpt /\ [][NextOpt]_vars

\* ------------------------------------------------------------- claims

\* The step in which the handler invocation of the handshake returns normally
\* (a raise leaves for the except clause, disconnect() leaves pc alone).
AuthHandlerReturned == pc = "auth_handler" /\ pc' \notin {"auth_handler", "sleep", "raised"}

C2_Orig ==
    (pc = "auth_recv" /\ recvd # <<>>)
        => Last(recvd) \in {OkSeq1Frame, OkReply1Frame, HelloFrame}

\* C3: after a transport open failure with keepalive false, connect has
\* returned, having made exactly one open attempt.
C3_Orig ==
    (~keepalive /\ cause = "open_failed") => (pc = "returned" /\ opens = 1)

\* C4: with keepalive true and every open failing, once disconnect() has been
\* called no further open attempt is made.
C4_Orig ==
    [][(keepalive /\ ~opened /\ disconnected /\ pc = "sleep") => pc' # "open"]_vars

\* C5: after disconnect() was called during an established session whose
\* event loop was running, connect opens no other session.
C5_Orig ==
    [][(discInLoop /\ pc \notin {"open", "returned"}) => pc' # "open"]_vars

\* C6: when the server answers the challenge with status FAIL and the handler
\* has returned for that frame, the handshake has failed: the session is not
\* used any further, and with keepalive false connect has returned after
\* that one attempt.
C6_Orig ==
    (recvd # <<>> /\ recvd[1] = FailFrame /\ ~(pc = "auth_handler" /\ Len(recvd) = 1))
        => /\ session = 0
           /\ (~keepalive /\ cause # "auth_handler_exc") => (pc = "returned" /\ opens = 1)

\* C7: on an open session whose first frame is hello with seq 0, the handshake
\* has succeeded as soon as the handler has returned for that frame, every frame
\* received so far, the hello frame and then the posted frame, was handed to
\* the handler exactly once and in order, only the hello frame is handled
\* inside the handshake, and alive is true as long as disconnect() was not
\* called.
C7_Thm ==
    (session = 1 /\ recvd # <<>> /\ recvd[1] = HelloFrame)
        => /\ calls = recvd
           /\ (pc = "auth_handler" => Len(recvd) = 1)
           /\ (pc # "auth_handler" => authed)
           /\ (~disconnected => alive)

C7_Witness ==
    /\ recvd = <<HelloFrame, PostedFrame>>
    /\ calls = <<HelloFrame, PostedFrame>>
    /\ authed
    /\ alive
    /\ pc = "sl_recv"

C9_Thm ==
    /\ pc # "raised"
    /\ cause # "none" => pc \in {"sleep", "open", "returned"}

C9_Witness ==
    /\ pc = "sleep"
    /\ cause \in {"open_failed", "auth_recv_error", "auth_handler_exc",
                  "recv_other_error", "handler_other_error"}

\* C10: after an established session ended with a transport error while
\* keepalive is false, connect has returned.
C10_Orig ==
    (~keepalive /\ cause \in {"recv_client_error", "recv_other_error"})
        => pc = "returned"

\* C11: once disconnect() has been called, alive is false after every
\* further step, further disconnect() calls included, and alive becomes true
\* again only in the step that calls connect.
C11_Thm ==
    [][/\ disconnected' => ~alive'
       /\ (discCalls >= 1 /\ discCalls' > discCalls) => alive' = alive
       /\ (~alive /\ alive') => connects' = connects + 1]_vars

C11_Witness ==
    /\ discCalls = 2
    /\ ~alive
    /\ pc = "sl_recv"

\* the heartbeat task of the open session is running and its transport is up
HbWatching ==
    /\ pc \in {"sl_recv", "sl_handler"}
    /\ hbWake # NoTime
    /\ ~peerClosed

\* C12: on an established session a probe is sent only when at least one
\* whole timeout has passed without a frame or a probe, two probes are never
\* less than one timeout apart, and the time since the last frame, the last
\* probe or the start of the monitor never exceeds one timeout: each idle
\* window gets its probe, and only one.
C12_Thm ==
    [][/\ lastProbe' # lastProbe =>
              /\ now - lastMsg >= Timeout
              /\ lastProbe # NoTime => lastProbe' - lastProbe >= Timeout
       /\ HbWatching' => now' - Max(lastMsg', HbStart) <= Timeout]_vars

C12_Witness ==
    /\ HbWatching
    /\ recvd = <<HelloFrame>>
    /\ lastProbe = HbStart + 2 * Timeout
    /\ now = lastProbe + 1

\* C13: on an open session the handler invocations started so far are, in
\* order, exactly the frames received so far: the i-th invocation is for the
\* i-th frame, so the invocation for Fi starts before the one for Fj when i < j.
C13_Thm ==
    session = 1 =>
        /\ Len(calls) = Len(recvd)
        /\ \A i \in 1..Len(recvd) : calls[i] = recvd[i]

C13_Witness ==
    /\ session = 1
    /\ pc = "sl_handler"
    /\ Len(recvd) = 3
    /\ recvd[2] = PostedFrame
    /\ recvd[3] = FailFrame
    /\ calls[2] = PostedFrame
    /\ calls[3] = FailFrame

\* C14: at most one transport session is open at any time; none is open
\* while connect() is about to open one, sleeps before a retry or has
\* returned, so every session is closed before the next one is opened; and
\* one is open wherever connect() is inside the handshake or the dispatcher.
C14_Thm ==
    /\ session \in {0, 1}
    /\ pc \in {"idle", "open", "sleep", "returned", "raised"} => session = 0
    /\ pc \in {"auth_send", "auth_recv", "auth_handler", "sl_recv", "sl_handler"} => session = 1

\* a second session is established after an exception ended the first in
\* the dispatcher (its heartbeat task is still counted)
C14_Witness ==
    /\ opens = 2
    /\ session = 1
    /\ pc = "sl_recv"
    /\ hb = 2

\* C18: within one connect() call, ws_connect is reached again only from the
\* keepalive_delay sleep: every step that takes connect() back to ws_connect
\* starts in the sleep.
C18_Orig ==
    [][(pc # "open" /\ pc' = "open" /\ connects' = connects) => pc = "sleep"]_vars

\* C19: once the transport has signalled that the open session is closed,
\* the dispatcher is not waiting for a frame on it while alive is true.
C19_Orig ==
    (peerClosed /\ session = 1 /\ alive) => pc # "sl_recv"

\* C20: at most one heartbeat task is running, and one is running only while
\* the dispatcher loop of the open session is.
C20_Orig ==
    /\ hb \in {0, 1}
    /\ hb = 1 <=> pc \in {"sl_recv", "sl_handler"}

\* the websocket of the later Websocket is connected: its session is open
\* and the peer has not closed it
Connected == session = 1 /\ ~peerClosed

\* C15: is_connected() (self._alive) is true exactly when the websocket is
\* connected.
C15_Orig ==
    alive <=> Connected

\* C16: listen() has returned only if disconnect() was called.
C16_Orig ==
    pc = "n_returned" => disconnected

\* C17: DriverOptions(options) raises RuntimeError exactly when the options
\* provide neither login_id with password nor token.
C17_Orig ==
    driverOptions.state # "none" =>
        (driverOptions.state = "raised" <=> MissingEither(options))

\* C21: in the later Websocket the handshake looks at one frame only.  While
\* it waits nothing has been received or handed over; the handler runs on
\* exactly that one frame; the handshake has succeeded only if that frame is a
\* success frame; and once it is over without success (RuntimeError, logged
\* by listen) at most that one frame was received and handed over, none when
\* the receive timed out or failed to decode.
C21_Thm ==
    /\ pc = "n_auth_recv" => (recvd = <<>> /\ calls = <<>>)
    /\ pc = "n_auth_handler" => (Len(recvd) = 1 /\ calls = recvd)
    /\ authed => (recvd # <<>> /\ recvd[1] \in {OkSeq1Frame, HelloFrame} /\ calls[1] = recvd[1])
    /\ (pc \in {"n_returned", "n_raised"} /\ ~authed) => (Len(recvd) <= 1 /\ calls = recvd)

C21_Witness ==
    /\ pc = "n_returned"
    /\ recvd = <<FailFrame>>
    /\ calls = <<FailFrame>>
    /\ ~authed
    /\ ~disconnected
    /\ alive

\* C22: in the later Websocket, once a receive of the dispatcher has raised
\* a transport error, listen() neither receives nor dispatches on that
\* session again (a new connect() clears the mark).
C22_Orig ==
    cause = "recv_other_error" => pc \notin {"n_recv", "n_handler"}

\* C23: on every session the challenge is sent once, as the first thing and
\* before anything is received; the handshake is reported successful only
\* when the handler has returned on a frame that is OK/seq 1 or hello/seq 0;
\* and the dispatcher loop and a new heartbeat task exist only on a session
\* whose handshake has succeeded.
C23_Thm ==
    [][/\ sent' # sent =>
              \/ sent' = 0
              \/ pc = "auth_send" /\ sent = 0 /\ sent' = 1 /\ recvd = <<>>
       /\ pc' = "auth_send" => (sent' = 0 /\ ~authed')
       /\ pc' \in {"auth_recv", "auth_handler", "sl_recv", "sl_handler"} => sent' = 1
       /\ (authed' /\ ~authed) =>
              (pc = "auth_handler" /\ Last(recvd) \in {OkSeq1Frame, HelloFrame})
       /\ pc' \in {"sl_recv", "sl_handler"} => authed'
       /\ hb' > hb => (authed' /\ ~authed /\ pc' = "sl_recv")]_vars

\* a frame is being dispatched on the session of a reconnect
C23_Witness ==
    /\ opens = 2
    /\ pc = "sl_handler"
    /\ sent = 1
    /\ authed
    /\ Len(recvd) = 2

\* C24: the monitor sleeps only while less than the idle timeout has passed
\* since lastMessageTime: once the timeout has passed it has sent the probe
\* and reset lastMessageTime, without sleeping first.
C24_Orig ==
    (HbWatching /\ now < hbWake) => now - lastMsg < Timeout

\* C24 as the code has it: every iteration sleeps first, the time left of
\* the timeout when no more than the timeout has passed since
\* lastMessageTime and a whole timeout otherwise; a probe is sent only at the
\* end of a sleep, and it sets lastMessageTime to now.
C24_Thm ==
    [][/\ (HbWakeIdle \/ HbProbe \/ HbProbeReset) =>
              LET since == now - lastMsg'
              IN  hbWake' = now + (IF since <= Timeout THEN Timeout - since ELSE Timeout)
       /\ lastProbe' # lastProbe =>
              (hbWake = now /\ now - lastMsg >= Timeout /\ lastMsg' = now /\ lastProbe' = now)]_vars

\* first session (_last_msg = 0, far more than the timeout ago): the monitor
\* has slept a whole timeout, sent its first probe and sleeps again
C24_Witness ==
    /\ HbWatching
    /\ connects = 1
    /\ recvd = <<HelloFrame>>
    /\ lastProbe = HbStart + Timeout
    /\ lastMsg = lastProbe
    /\ hbWake = lastProbe + Timeout

\* C25: whenever a probe is sent, at least the idle timeout has passed since
\* lastMessageTime and since the previous probe; lastMessageTime never goes
\* back and is never before the last probe, so no frame was received by the
\* dispatcher and no probe was sent within the timeout before a probe.
C25_Thm ==
    [][/\ lastProbe' # lastProbe =>
              /\ now - lastMsg >= Timeout
              /\ lastProbe # NoTime => now - lastProbe >= Timeout
       /\ lastMsg' >= lastMsg
       /\ lastProbe' # NoTime => lastMsg' >= lastProbe']_vars

\* a frame came one tick after the monitor started; the monitor woke at the
\* end of its first sleep, sent nothing, and probed one timeout after the frame
C25_Witness ==
    /\ HbWatching
    /\ connects = 1
    /\ Len(recvd) = 2
    /\ lastProbe = HbStart + Timeout + 1
    /\ now = lastProbe

C28_Thm ==
    [][HbProbeReset =>
           /\ lastMsg' = lastMsg
           /\ lastProbe' = lastProbe
           /\ UNCHANGED conn
           /\ hbWake' # NoTime
           /\ hbWake' >= now]_vars

\* first session: the first pong() failed one timeout after the monitor
\* started, and the monitor sleeps another timeout while the dispatcher waits
C28_Witness ==
    /\ pc = "sl_recv"
    /\ alive
    /\ session = 1
    /\ peerClosed
    /\ connects = 1
    /\ lastMsg = 0
    /\ lastProbe = NoTime
    /\ now = HbStart + Timeout
    /\ hbWake = now + Timeout

\* C27: a receive that fails to decode in the dispatcher loop invokes no
\* handler and changes neither the frames handed over nor alive; while alive
\* is true it changes nothing at all: the session stays open and the
\* dispatcher waits for the next frame.
C27_Thm ==
    [][LoopRecvDecodeError =>
           /\ calls' = calls
           /\ recvd' = recvd
           /\ running' = running
           /\ alive' = alive
           /\ alive => (pc' = "sl_recv" /\ session' = session /\ UNCHANGED vars)]_vars

\* the dispatcher waits for a frame on an established session with one
\* frame dispatched: the state a decode failure occurs in, and leaves as it is
C27_Witness ==
    /\ pc = "sl_recv"
    /\ alive
    /\ session = 1
    /\ ~peerClosed
    /\ opens = 1
    /\ Len(recvd) = 2
    /\ calls = recvd
    /\ ENABLED LoopRecvDecodeError

\* C29: once disconnect() was called during an established session, the
\* handler is invoked again only for the frame whose receive was pending in
\* the dispatcher, and after that frame the dispatcher does not receive again.
C29_Orig ==
    [][/\ (discInLoop /\ ~alive /\ Len(calls') > Len(calls)) => pc = "sl_recv"
       /\ (discInLoop /\ ~alive /\ pc = "sl_handler") => pc' # "sl_recv"]_vars

\* C30: when a handler invocation of the dispatcher ends while alive is
\* true, however it ends, the dispatcher receives again on the same session
\* and alive is unchanged.
C30_Orig ==
    [][(pc = "sl_handler" /\ alive /\ pc' # "sl_handler") =>
           (pc' = "sl_recv" /\ session' = session /\ alive' = alive)]_vars

====
